---------------------------- MODULE Spec2Model ----------------------------
(***************************************************************************)
(* Model of ephemerole: the eligibility tracker (src/src/lib.rs), the      *)
(* standalone binary's copy of the tracker (src/src/main.rs) and the .epd  *)
(* persistence format with its FNV-1a checksum (src/src/persist.rs).       *)
(*                                                                         *)
(* A u64 is kept at its full width as four 16-bit words, least significant *)
(* word first; a byte is a number in 0..255.                               *)
(***************************************************************************)
EXTENDS Integers, Sequences, FiniteSets, TLC

\* ------------------------------------------------------------------ u64

Byte == 0..255

U64Zero == <<0, 0, 0, 0>>

\* u64::MAX
U64Max == <<65535, 65535, 65535, 65535>>

\* A small number (below 2^31) as a u64.
U64Of(n) == <<n % 65536, (n \div 65536) % 65536, 0, 0>>

\* a < b, compared from the most significant word down.
U64Lt(a, b) ==
    \/ a[4] < b[4]
    \/ a[4] = b[4] /\ a[3] < b[3]
    \/ a[4] = b[4] /\ a[3] = b[3] /\ a[2] < b[2]
    \/ a[4] = b[4] /\ a[3] = b[3] /\ a[2] = b[2] /\ a[1] < b[1]

U64Geq(a, b) == ~U64Lt(a, b)

\* a - b modulo 2^64 (u64::wrapping_sub), word by word with borrow.
wrapping_sub(a, b) ==
    LET d1 == a[1] - b[1]
        c1 == IF d1 < 0 THEN 1 ELSE 0
        d2 == a[2] - b[2] - c1
        c2 == IF d2 < 0 THEN 1 ELSE 0
        d3 == a[3] - b[3] - c2
        c3 == IF d3 < 0 THEN 1 ELSE 0
        d4 == a[4] - b[4] - c3
    IN  <<d1 % 65536, d2 % 65536, d3 % 65536, d4 % 65536>>

\* a + b modulo 2^64 (what `+=` computes in a release build).
wrapping_add(a, b) ==
    LET s1 == a[1] + b[1]
        s2 == a[2] + b[2] + (s1 \div 65536)
        s3 == a[3] + b[3] + (s2 \div 65536)
        s4 == a[4] + b[4] + (s3 \div 65536)
    IN  <<s1 % 65536, s2 % 65536, s3 % 65536, s4 % 65536>>

\* A subtraction that wraps around instead of clamping.
saturating_sub_wrapping(a, b) == wrapping_sub(a, b)

\* u64::saturating_sub: clamps at 0 instead of wrapping.
saturating_sub(a, b) == IF U64Lt(a, b) THEN U64Zero ELSE wrapping_sub(a, b)

\* a / d for a small divisor d (long division from the top word).
U64DivSmall(a, d) ==
    LET n4 == a[4]
        n3 == (n4 % d) * 65536 + a[3]
        n2 == (n3 % d) * 65536 + a[2]
        n1 == (n2 % d) * 65536 + a[1]
    IN  <<n1 \div d, n2 \div d, n3 \div d, n4 \div d>>

\* a >> 22: one whole word (16 bits), then 6 more bits.
U64Shr22(a) == U64DivSmall(<<a[2], a[3], a[4], 0>>, 64)

\* The eight bytes, most significant first.
to_be_bytes(a) ==
    <<a[4] \div 256, a[4] % 256, a[3] \div 256, a[3] % 256,
      a[2] \div 256, a[2] % 256, a[1] \div 256, a[1] % 256>>

\* u64::to_le_bytes: the eight bytes, least significant first.
to_le_bytes(a) ==
    <<a[1] % 256, a[1] \div 256, a[2] % 256, a[2] \div 256,
      a[3] % 256, a[3] \div 256, a[4] % 256, a[4] \div 256>>

\* u64::from_le_bytes.
from_le_bytes(b) ==
    <<b[1] + 256 * b[2], b[3] + 256 * b[4], b[5] + 256 * b[6], b[7] + 256 * b[8]>>

\* Bitwise exclusive or of two natural numbers, bit by bit from the lowest.
RECURSIVE XorBits(_, _)
XorBits(x, y) ==
    IF y = 0 THEN x
    ELSE IF x = 0 THEN y
    ELSE ((x + y) % 2) + 2 * XorBits(x \div 2, y \div 2)

\* BitXor::bitxor on u64.
bitxor(a, b) ==
    <<XorBits(a[1], b[1]), XorBits(a[2], b[2]), XorBits(a[3], b[3]), XorBits(a[4], b[4])>>

\* u64::wrapping_mul: the low 64 bits of the product. Each word of b is taken
\* as two bytes so that no partial product leaves 31 bits; lo and hi are the
\* sums of a's words times b's low and high bytes, per result word.
wrapping_mul(a, b) ==
    LET bl == <<b[1] % 256, b[2] % 256, b[3] % 256, b[4] % 256>>
        bh == <<b[1] \div 256, b[2] \div 256, b[3] \div 256, b[4] \div 256>>
        lo1 == a[1] * bl[1]
        lo2 == a[1] * bl[2] + a[2] * bl[1]
        lo3 == a[1] * bl[3] + a[2] * bl[2] + a[3] * bl[1]
        lo4 == a[1] * bl[4] + a[2] * bl[3] + a[3] * bl[2] + a[4] * bl[1]
        hi1 == a[1] * bh[1]
        hi2 == a[1] * bh[2] + a[2] * bh[1]
        hi3 == a[1] * bh[3] + a[2] * bh[2] + a[3] * bh[1]
        hi4 == a[1] * bh[4] + a[2] * bh[3] + a[3] * bh[2] + a[4] * bh[1]
        v1 == lo1 + (hi1 % 256) * 256
        v2 == lo2 + (hi2 % 256) * 256 + (hi1 \div 256) + (v1 \div 65536)
        v3 == lo3 + (hi3 % 256) * 256 + (hi2 \div 256) + (v2 \div 65536)
        v4 == lo4 + (hi4 % 256) * 256 + (hi3 \div 256) + (v3 \div 65536)
    IN  <<v1 % 65536, v2 % 65536, v3 % 65536, v4 % 65536>>

\* ---------------------------------------------------------------- Fnv1A

FNV_PRIME == <<435, 0, 256, 0>>                \* 0x0000_0100_0000_01B3

OFFSET_BASIS == <<8997, 33826, 40164, 52210>>  \* 0xCBF2_9CE4_8422_2325

\* Fnv1A::new
Fnv1A_new == OFFSET_BASIS

\* FNV-1 in place of FNV-1a: multiply first, mix the byte in after.
update_fnv1(hash, data) == bitxor(wrapping_mul(hash, FNV_PRIME), U64Of(data))

\* An accumulator that multiplies and never mixes the byte in.
update_ignoring_data(hash, data) == wrapping_mul(hash, FNV_PRIME)

\* Fnv1A::update: hash = (hash ^ data).wrapping_mul(FNV_PRIME)
update(hash, data) == wrapping_mul(bitxor(hash, U64Of(data)), FNV_PRIME)

\* Fnv1A::update_each over data[lo..hi]: update for every byte in order, the
\* bytes of the first half (giving the accumulator h) before those of the second.
RECURSIVE update_range(_, _, _, _)
update_range(hash, data, lo, hi) ==
    IF lo > hi THEN hash
    ELSE IF lo = hi THEN update(hash, data[lo])
    ELSE CHOOSE r \in {update_range(h, data, (lo + hi) \div 2 + 1, hi) :
                         h \in {update_range(hash, data, lo, (lo + hi) \div 2)}} : TRUE

\* Fnv1A::update_each
update_each(hash, data) == update_range(hash, data, 1, Len(data))

\* Fnv1A::finish
finish(hash) == hash

\* --------------------------------------------------------------- tracker

VARIABLES
    state,            \* AppState: guild, role, message_cooldown, message_requirement
    message_map,      \* MessageMap: user id -> UserData
    background_tasks, \* TaskTracker: user id -> add_role tasks spawned and not finished
    shutdown,         \* the AtomicBool handed to handle_event
    now,              \* the monotonic clock read by the standalone binary
    file,             \* the bytes of the .epd file
    loaded,           \* what load returned for file
    pc,               \* where the save / load run, or the event loop, is
    tamper,           \* what was done to the file after save wrote it
    run,              \* what is remembered of the run of events so far
    op,               \* the operation that ran last
    ev,               \* its input
    decision,         \* what should_assign_role returned in it
    ret,              \* what handle_event returned
    pre               \* message_map before it ran

vars == <<state, message_map, background_tasks, shutdown, now, file, loaded, pc,
          tamper, run, op, ev, decision, ret, pre>>

\* Bounds of the model.
MaxTime == 3
MaxCooldown == 2
MaxRequirement == 2
MaxTasks == 1
MaxNow == 5460
MaxStart == 1
MaxEntries == 2
MaxBytes == 3

\* The user ids events come from.
UserA == U64Of(10)
UserB == U64Of(20)
Users == {UserA, UserB}

\* The role the bot assigns, and another role a member may hold.
RewardRole == U64Of(1)
OtherRole == U64Of(2)
GuildId == U64Of(1)

\* twilight's Option<PartialMember>, reduced to the roles it carries.
NoMember == [is_some |-> FALSE, roles |-> {}]
Members == {NoMember, [is_some |-> TRUE, roles |-> {OtherRole}],
            [is_some |-> TRUE, roles |-> {OtherRole, RewardRole}]}

\* A message id (snowflake) sent t seconds after the discord epoch: the
\* millisecond timestamp in the bits from 22 up, worker and sequence bits below.
SnowflakeAt(t) ==
    LET ms == t * 1000 + 7
    IN  <<5, (ms * 64) % 65536, (ms * 64) \div 65536, 0>>

MessageCreates ==
    [id : {SnowflakeAt(t) : t \in 0..MaxTime}, author : Users, member : Members]

EmptyMap == [u \in {} |-> [messages |-> U64Zero, last_message_at |-> U64Zero]]

\* A removal that leaves the entry in.
MapKeep(map, k) == map

\* HashMap::remove / OccupiedEntry::remove
MapRemove(map, k) == [u \in DOMAIN map \ {k} |-> map[u]]

\* An insertion that keeps the value a key already has.
MapInsertFirstWins(map, k, v) ==
    [u \in DOMAIN map \cup {k} |-> IF u \in DOMAIN map THEN map[u] ELSE v]

\* An insertion that drops every other key.
MapInsertAlone(map, k, v) == [u \in {k} |-> v]

\* HashMap::insert / VacantEntry::insert (the last write wins)
MapInsert(map, k, v) == [u \in DOMAIN map \cup {k} |-> IF u = k THEN v ELSE map[u]]

snowflake_to_timestamp(id) == U64DivSmall(U64Shr22(id), 1000)

\* A role test that never finds the role.
already_has_role_never(message_create, st) == FALSE

\* "If we know the user's roles, and we know they contain the role we'd assign"
already_has_role(message_create, st) ==
    message_create.member.is_some /\ st.role \in message_create.member.roles

\* A cooldown that is always over.
cooldown_always_elapsed(message_sent_at, data, st) == TRUE

\* message_sent_at.saturating_sub(last_message_at) >= state.message_cooldown
cooldown_elapsed(message_sent_at, data, st) ==
    U64Geq(saturating_sub(message_sent_at, data.last_message_at), st.message_cooldown)

\* A test that wants the count to exceed the requirement.
enough_messages_strict(data, st) == U64Lt(st.message_requirement, data.messages)

\* entry.get().messages >= state.message_requirement
enough_messages(data, st) == U64Geq(data.messages, st.message_requirement)

\* A counting that leaves the stored time as it was.
counted_without_time(data, message_sent_at) ==
    [messages |-> wrapping_add(data.messages, U64Of(1)),
     last_message_at |-> data.last_message_at]

\* A counting that takes one off.
counted_down(data, message_sent_at) ==
    [messages |-> wrapping_sub(data.messages, U64Of(1)),
     last_message_at |-> message_sent_at]

\* The occupied entry counted once more: last_message_at set, messages += 1.
\* (messages is below message_requirement here, so the sum never overflows.)
counted(data, message_sent_at) ==
    [messages |-> wrapping_add(data.messages, U64Of(1)),
     last_message_at |-> message_sent_at]

\* An insertion that does not count the first message.
first_message_uncounted(message_sent_at) ==
    [messages |-> U64Zero, last_message_at |-> message_sent_at]

\* The vacant entry's insertion.
first_message(message_sent_at) ==
    [messages |-> U64Of(1), last_message_at |-> message_sent_at]

\* should_assign_role of the library: the decision and the map it leaves.
should_assign_role(message_create, st, map) ==
    IF already_has_role(message_create, st)
    THEN [ret |-> FALSE, map |-> map]
    ELSE LET user_id == message_create.author
             message_sent_at == snowflake_to_timestamp(message_create.id)
         IN  IF user_id \in DOMAIN map
             THEN IF cooldown_elapsed(message_sent_at, map[user_id], st)
                  THEN IF enough_messages(map[user_id], st)
                       THEN [ret |-> TRUE, map |-> MapRemove(map, user_id)]
                       ELSE [ret |-> FALSE,
                             map |-> [map EXCEPT
                                        ![user_id] = counted(@, message_sent_at)]]
                  ELSE [ret |-> FALSE, map |-> map]
             ELSE [ret |-> FALSE,
                   map |-> MapInsert(map, user_id, first_message(message_sent_at))]

NoTasks == [u \in Users |-> 0]

\* A spawn that starts the task twice.
spawn_add_role_twice(tasks, target) == [tasks EXCEPT ![target] = @ + 2]

\* TaskTracker::spawn_on(add_role(client, guild, role, target), ..)
spawn_add_role(tasks, target) == [tasks EXCEPT ![target] = @ + 1]

\* The input slot before any call.
NoMessage == [id |-> U64Zero, author |-> U64Zero, member |-> NoMember]

PersistIdle ==
    /\ file = <<>>
    /\ loaded = [kind |-> "None"]
    /\ pc = "idle"
    /\ tamper = [kind |-> "none"]

NoRun == [t0 |-> 0, results |-> <<>>]

\* The library's state before the first event: an empty map, no task, a policy.
Init ==
    /\ state \in [guild : {GuildId}, role : {RewardRole},
                  message_cooldown : {U64Of(c) : c \in 0..MaxCooldown},
                  message_requirement : {U64Of(n) : n \in 0..MaxRequirement}]
    /\ message_map = EmptyMap
    /\ background_tasks = NoTasks
    /\ shutdown = FALSE
    /\ now = 0
    /\ PersistIdle
    /\ run = NoRun
    /\ op = "init"
    /\ ev = NoMessage
    /\ decision = FALSE
    /\ ret = FALSE
    /\ pre = EmptyMap

\* One call of the library's should_assign_role on message_create.
ShouldAssignRole(message_create) ==
    \E r \in {should_assign_role(message_create, state, message_map)} :
        /\ message_map' = r.map
        /\ decision' = r.ret
        /\ op' = "should_assign_role"
        /\ ev' = message_create
        /\ pre' = message_map
        /\ UNCHANGED <<state, background_tasks, shutdown, now, file, loaded, pc,
                       tamper, run, ret>>

Next == \E mc \in MessageCreates : ShouldAssignRole(mc)

Spec == Init /\ [][Next]_vars


\* ------------------------------------------- claims about the library

\* What a claim reads of the last should_assign_role call.
Called == op = "should_assign_role"
EvUser == ev.author
EvTime == snowflake_to_timestamp(ev.id)
EvHoldsReward == ev.member.is_some /\ state.role \in ev.member.roles

\* The time from last to t is below c, an earlier t counting as no time at all.
Within(t, last, c) ==
    IF U64Lt(t, last) THEN c # U64Zero ELSE U64Lt(wrapping_sub(t, last), c)

\* C1 (library): the call returns grant exactly when the member does not hold
\* the reward role, a record is present, the saturating time difference is at
\* least the cooldown and the stored count is at least the threshold; and
\* exactly then the call removes the record.
C1_LibraryGrantIff ==
    Called =>
        LET due == /\ ~EvHoldsReward
                   /\ EvUser \in DOMAIN pre
                   /\ ~Within(EvTime, pre[EvUser].last_message_at, state.message_cooldown)
                   /\ ~U64Lt(pre[EvUser].messages, state.message_requirement)
        IN  /\ decision <=> due
            /\ due <=> (EvUser \in DOMAIN pre /\ EvUser \notin DOMAIN message_map)

\* C9: with the reward role not held and no record for the author, the call
\* returns no grant and leaves exactly the record (1, event_time) for the author,
\* whatever the threshold and the cooldown are.
C9_AbsentInserted ==
    (Called /\ ~EvHoldsReward /\ EvUser \notin DOMAIN pre) =>
        /\ decision = FALSE
        /\ DOMAIN message_map = DOMAIN pre \cup {EvUser}
        /\ message_map[EvUser] = [messages |-> <<1, 0, 0, 0>>, last_message_at |-> EvTime]

\* A first event inserted a record, under the lowest and under a higher threshold.
C9_Witness ==
    /\ Called /\ ~EvHoldsReward /\ EvUser \notin DOMAIN pre
    /\ EvUser \in DOMAIN message_map
    /\ state.message_requirement = U64Zero
    /\ EvTime # U64Zero

DueForCount ==
    /\ EvUser \in DOMAIN pre
    /\ ~Within(EvTime, pre[EvUser].last_message_at, state.message_cooldown)
    /\ U64Lt(pre[EvUser].messages, state.message_requirement)

\* The call counted the event: no grant, the author's record now holds the
\* event time and one more message, every other record is as it was.
CountedInPlace ==
    /\ decision = FALSE
    /\ DOMAIN message_map = DOMAIN pre
    /\ message_map[EvUser] =
           [messages |-> wrapping_add(pre[EvUser].messages, U64Of(1)),
            last_message_at |-> EvTime]
    /\ \A u \in DOMAIN pre \ {EvUser} : message_map[u] = pre[u]

\* C11 as stated: with a record present, the cooldown over and the count below
\* the threshold, the call returns no grant and sets the record to the event
\* time and one more message, whether or not the member holds the reward role.
C11_CountedAnyMember ==
    (Called /\ DueForCount) => CountedInPlace

\* C11: with the reward role not held, a record present, the cooldown over and
\* the count below the threshold, the call returns no grant and sets the record
\* to the event time and one more message, keeping it in the table.
C11_Counted ==
    (Called /\ ~EvHoldsReward /\ DueForCount) => CountedInPlace

\* A record was counted from 1 to 2 at a later time, under a non-zero cooldown.
C11_Witness ==
    /\ Called /\ ~EvHoldsReward /\ DueForCount
    /\ state.message_cooldown # U64Zero
    /\ EvTime # pre[EvUser].last_message_at
    /\ message_map[EvUser].messages = U64Of(2)

\* C15 (library): an event exactly the cooldown after the stored
\* last_message_at, the reward role not held, is counted or grants; only a
\* smaller difference leaves the record as it was.
C15_LibraryExactCooldown ==
    (/\ Called /\ ~EvHoldsReward
     /\ EvUser \in DOMAIN pre
     /\ EvTime = wrapping_add(pre[EvUser].last_message_at, state.message_cooldown)) =>
        IF U64Lt(pre[EvUser].messages, state.message_requirement)
        THEN CountedInPlace
        ELSE decision = TRUE /\ message_map = MapRemove(pre, EvUser)

\* C12: when the member's roles contain the reward role the call returns no
\* grant and the table is as it was, whatever the author, the event time and
\* the author's record are.
C12_RoleHolderIgnored ==
    (Called /\ EvHoldsReward) => (decision = FALSE /\ message_map = pre)

\* A holder of the reward role whose record was due for the grant.
C12_Witness ==
    /\ Called /\ EvHoldsReward
    /\ EvUser \in DOMAIN pre
    /\ ~Within(EvTime, pre[EvUser].last_message_at, state.message_cooldown)
    /\ ~U64Lt(pre[EvUser].messages, state.message_requirement)
    /\ state.message_requirement # U64Zero
    /\ message_map = pre

\* C14: from one state to the next the count of a record that stays in the
\* table never goes down; a record leaves the table only in a grant for its
\* user, and a record enters the table with count 1.
C14_CountNeverDecreases ==
    [][\A u \in Users :
         /\ (u \in DOMAIN message_map /\ u \in DOMAIN message_map') =>
                U64Geq(message_map'[u].messages, message_map[u].messages)
         /\ (u \in DOMAIN message_map /\ u \notin DOMAIN message_map') =>
                (decision' /\ ev'.author = u)
         /\ (u \notin DOMAIN message_map /\ u \in DOMAIN message_map') =>
                message_map'[u].messages = U64Of(1)]_vars

\* One record has grown to count 2, and another has just come in with count 1.
C14_Witness ==
    /\ Called /\ ~EvHoldsReward
    /\ EvUser \notin DOMAIN pre
    /\ message_map[EvUser].messages = U64Of(1)
    /\ state.message_requirement = U64Of(2)
    /\ \E u \in DOMAIN message_map \ {EvUser} : message_map[u].messages = U64Of(2)


\* The larger of 1 and the threshold.
Cap == IF state.message_requirement = U64Zero THEN U64Of(1) ELSE state.message_requirement

\* The step is a call for u that finds the cooldown of u's record over and the
\* member without the reward role.
DueCallFor(u) ==
    /\ op' = "should_assign_role"
    /\ ev'.author = u
    /\ ~(ev'.member.is_some /\ state.role \in ev'.member.roles)
    /\ ~Within(snowflake_to_timestamp(ev'.id), message_map[u].last_message_at,
               state.message_cooldown)

\* C24: from the empty map, under any policy and any events, every record has
\* 1 <= messages <= max(1, message_requirement); a record whose count has
\* reached the threshold stays as it is through every step but a call for its
\* user that finds the cooldown over, and that call grants and removes it.
C24_CountInRange ==
    /\ [](\A u \in DOMAIN message_map :
            /\ U64Geq(message_map[u].messages, U64Of(1))
            /\ U64Geq(Cap, message_map[u].messages))
    /\ [][\A u \in DOMAIN message_map :
            U64Geq(message_map[u].messages, state.message_requirement) =>
                IF DueCallFor(u)
                THEN decision' /\ u \notin DOMAIN message_map'
                ELSE u \in DOMAIN message_map' /\ message_map'[u] = message_map[u]]_vars

\* A record at the threshold 2 was met by an event inside its cooldown and
\* stayed as it was.
C24_Witness ==
    /\ Called /\ ~EvHoldsReward
    /\ state.message_requirement = U64Of(2)
    /\ EvUser \in DOMAIN pre
    /\ pre[EvUser].messages = U64Of(2)
    /\ Within(EvTime, pre[EvUser].last_message_at, state.message_cooldown)
    /\ EvUser \in DOMAIN message_map
    /\ message_map[EvUser] = pre[EvUser]

\* The map with only the record of u, when there is one.
Only(map, u) == [v \in DOMAIN map \cap {u} |-> map[v]]

\* The records of everyone but u.
Others(map, u) == [v \in DOMAIN map \ {u} |-> map[v]]

\* The events of the users other than the author of the last call.
OtherEvents == {mc \in MessageCreates : mc.author # EvUser}

\* C25: a call for one user leaves the record of every other user as it was,
\* present or absent, and decides as it would on a map holding only its own
\* user's record; so this call and a call for another user, made in either
\* order from the same map, leave the same map and return the same decisions.
C25_OtherUsersUntouched ==
    Called =>
        /\ Others(message_map, EvUser) = Others(pre, EvUser)
        /\ \E alone \in {should_assign_role(ev, state, Only(pre, EvUser))} :
               /\ alone.ret = decision
               /\ alone.map = Only(message_map, EvUser)
        /\ \A mc \in OtherEvents :
               \E after \in {should_assign_role(mc, state, message_map)},
                  before \in {should_assign_role(mc, state, pre)} :
                   \E swapped \in {should_assign_role(ev, state, before.map)} :
                       /\ after.map = swapped.map
                       /\ after.ret = before.ret
                       /\ swapped.ret = decision

\* A call counted its user's second message while another user's record was
\* in the map, and left that record in.
C25_Witness ==
    /\ Called /\ ~EvHoldsReward
    /\ EvUser \in DOMAIN pre
    /\ EvUser \in DOMAIN message_map
    /\ message_map[EvUser].messages = U64Of(2)
    /\ \E u \in DOMAIN pre \ {EvUser} : u \in DOMAIN message_map /\ message_map[u] = pre[u]

\* C26 as stated: under every cooldown, 0 included, and every order of event
\* times, the last_message_at of a record that is in the map before and after
\* a step does not go down.
C26_LastTimeNeverDecreasesAnyCooldown ==
    [][\A u \in Users :
         (u \in DOMAIN message_map /\ u \in DOMAIN message_map') =>
             U64Geq(message_map'[u].last_message_at, message_map[u].last_message_at)]_vars

\* C26: under a cooldown above 0 the last_message_at of a record that is in
\* the map before and after a step does not go down; under the cooldown 0 a
\* record that is counted takes the time of the event, earlier or not.
C26_LastTimeNeverDecreases ==
    [][\A u \in Users :
         (u \in DOMAIN message_map /\ u \in DOMAIN message_map') =>
             IF state.message_cooldown # U64Zero
             THEN U64Geq(message_map'[u].last_message_at, message_map[u].last_message_at)
             ELSE message_map'[u] # message_map[u] =>
                      /\ ev'.author = u
                      /\ message_map'[u].last_message_at = snowflake_to_timestamp(ev'.id)]_vars

\* Under a cooldown above 0 an event earlier than the stored time came for a
\* record below the threshold, and the record kept its time.
C26_Witness ==
    /\ Called /\ ~EvHoldsReward
    /\ state.message_cooldown # U64Zero
    /\ EvUser \in DOMAIN pre
    /\ U64Lt(pre[EvUser].messages, state.message_requirement)
    /\ U64Lt(EvTime, pre[EvUser].last_message_at)
    /\ EvUser \in DOMAIN message_map
    /\ message_map[EvUser].last_message_at = pre[EvUser].last_message_at


\* ------------------------------------------ an evenly spaced run of events

\* The policy's numbers, as the small numbers Init drew them from.
Requirement == CHOOSE n \in 0..MaxRequirement : U64Of(n) = state.message_requirement
Cooldown == CHOOSE c \in 0..MaxCooldown : U64Of(c) = state.message_cooldown

\* As Init, with the time of the run's first event chosen.
InitSpaced ==
    /\ state \in [guild : {GuildId}, role : {RewardRole},
                  message_cooldown : {U64Of(c) : c \in 0..MaxCooldown},
                  message_requirement : {U64Of(n) : n \in 0..MaxRequirement}]
    /\ message_map = EmptyMap
    /\ background_tasks = NoTasks
    /\ shutdown = FALSE
    /\ now = 0
    /\ PersistIdle
    /\ run \in [t0 : 0..MaxStart, results : {<<>>}]
    /\ op = "init"
    /\ ev = NoMessage
    /\ decision = FALSE
    /\ ret = FALSE
    /\ pre = EmptyMap

\* The run's next event: UserA, not holding the reward role, one cooldown
\* after the run's previous event.
SpacedEvent(member) ==
    /\ Len(run.results) <= Requirement + 1
    /\ ~(member.is_some /\ state.role \in member.roles)
    /\ LET mc == [id |-> SnowflakeAt(run.t0 + Len(run.results) * Cooldown),
                  author |-> UserA, member |-> member]
       IN  \E r \in {should_assign_role(mc, state, message_map)} :
               /\ message_map' = r.map
               /\ decision' = r.ret
               /\ run' = [run EXCEPT !.results = Append(@, r.ret)]
               /\ op' = "spaced"
               /\ ev' = mc
               /\ pre' = message_map
    /\ UNCHANGED <<state, background_tasks, shutdown, now, file, loaded, pc,
                   tamper, ret>>

\* Any event of another user in between.
OtherUserEvent(mc) ==
    /\ mc.author # UserA
    /\ ShouldAssignRole(mc)

NextSpaced ==
    \/ \E member \in Members : SpacedEvent(member)
    \/ \E mc \in MessageCreates : OtherUserEvent(mc)

SpecSpaced == InitSpaced /\ [][NextSpaced]_vars

\* C2 as claimed, for every threshold N (0 included) and cooldown c: of the
\* events of an untracked user spaced c apart, the first N return no grant and
\* event number N + 1 returns grant and leaves no record of the user.
C2_GrantAtNPlusOne ==
    /\ \A k \in 1..Len(run.results) : k <= Requirement => run.results[k] = FALSE
    /\ Len(run.results) = Requirement + 1 =>
           run.results[Requirement + 1] = TRUE /\ UserA \notin DOMAIN message_map

\* C2 amended, for every threshold N >= 1 and cooldown c: the first N spaced
\* events return no grant, event number N + 1 returns grant and leaves no
\* record of the user.
C2_GrantAtNPlusOneFromOne ==
    Requirement >= 1 => C2_GrantAtNPlusOne

\* The grant of a run under the highest threshold and a non-zero cooldown.
C2_Witness ==
    /\ Requirement = MaxRequirement /\ Requirement >= 1 /\ Cooldown >= 1
    /\ op = "spaced"
    /\ Len(run.results) = Requirement + 1
    /\ run.results[Requirement + 1] = TRUE
    /\ UserA \notin DOMAIN message_map

\* --------------------------------------------- events and their history

\* What is remembered of UserA's events: the time of the latest one (-1: none
\* yet), whether the times never went back, whether the latest one returned
\* grant, whether it came right after one that did, the time of the latest
\* counted one and its distance from the counted one before (-1: none).
NoHistory ==
    [latest |-> -1, monotone |-> TRUE, granted |-> FALSE, followed_grant |-> FALSE,
     counted_at |-> -1, gap |-> -1]

\* The event time of a message, as the small number its id was made from.
TimeOf(mc) == CHOOSE t \in 0..MaxTime : U64Of(t) = snowflake_to_timestamp(mc.id)

\* The call inserted the user's record or added to its count.
WasCounted(u, before, after) ==
    /\ u \in DOMAIN after
    /\ u \in DOMAIN before => after[u].messages # before[u].messages

\* The history of a user after one more event of theirs at time t. Once the
\* times have gone back, times and distances are no longer kept.
Remember(h, t, granted, was_counted) ==
    IF h.monotone /\ t >= h.latest
    THEN [latest |-> t,
          monotone |-> TRUE,
          granted |-> granted,
          followed_grant |-> h.granted,
          counted_at |-> IF was_counted THEN t ELSE h.counted_at,
          gap |-> IF was_counted /\ h.counted_at >= 0 THEN t - h.counted_at ELSE h.gap]
    ELSE [NoHistory EXCEPT !.monotone = FALSE, !.granted = granted,
                           !.followed_grant = h.granted]

InitHistory ==
    /\ state \in [guild : {GuildId}, role : {RewardRole},
                  message_cooldown : {U64Of(c) : c \in 0..MaxCooldown},
                  message_requirement : {U64Of(n) : n \in 0..MaxRequirement}]
    /\ message_map = EmptyMap
    /\ background_tasks = NoTasks
    /\ shutdown = FALSE
    /\ now = 0
    /\ PersistIdle
    /\ run = NoHistory
    /\ op = "init"
    /\ ev = NoMessage
    /\ decision = FALSE
    /\ ret = FALSE
    /\ pre = EmptyMap

\* One call of the library's should_assign_role, remembered when it is for
\* UserA.
RememberedEvent(message_create) ==
    \E r \in {should_assign_role(message_create, state, message_map)} :
        /\ message_map' = r.map
        /\ decision' = r.ret
        /\ run' = IF message_create.author = UserA
                  THEN Remember(run, TimeOf(message_create), r.ret,
                                WasCounted(UserA, message_map, r.map))
                  ELSE run
        /\ op' = "should_assign_role"
        /\ ev' = message_create
        /\ pre' = message_map
        /\ UNCHANGED <<state, background_tasks, shutdown, now, file, loaded, pc,
                       tamper, ret>>

\* The events of UserA, and those of UserB that can change the table.
HistoryEvents ==
    {mc \in MessageCreates : mc.author = UserA \/ mc.member = NoMember}

NextHistory == \E mc \in HistoryEvents : RememberedEvent(mc)

SpecHistory == InitHistory /\ [][NextHistory]_vars

\* The last call was for UserA.
CalledForA == Called /\ EvUser = UserA

\* C13: the event of a user that comes right after a grant for that user, the
\* reward role not held, returns no grant and leaves the fresh record
\* (1, event_time), whatever its time is; two events of one user in a row
\* never both return grant.
C13_FreshAfterGrant ==
    /\ (CalledForA /\ run.followed_grant /\ ~EvHoldsReward) =>
           /\ decision = FALSE
           /\ UserA \notin DOMAIN pre
           /\ UserA \in DOMAIN message_map
           /\ message_map[UserA] = [messages |-> U64Of(1), last_message_at |-> EvTime]
    /\ ~(run.granted /\ run.followed_grant)

\* After a grant and an event of the other user, an event dated before the
\* grant started the user's next cycle.
C13_Witness ==
    /\ CalledForA /\ ~EvHoldsReward
    /\ run.followed_grant
    /\ ~run.monotone
    /\ UserB \in DOMAIN message_map
    /\ message_map[UserA].messages = U64Of(1)

\* C16: while a user's event times never go back, two successive counted
\* events of that user, a grant between them or not, are at least the cooldown
\* apart.
C16_CountedApart ==
    (run.monotone /\ run.gap >= 0) => run.gap >= Cooldown

\* The first counted event after a grant, under a non-zero cooldown.
C16_Witness ==
    /\ CalledForA /\ ~EvHoldsReward
    /\ run.monotone
    /\ run.followed_grant
    /\ run.counted_at = run.latest
    /\ run.gap >= 0
    /\ Cooldown > 0

\* ------------------------------------------------------- handle_event

\* A test of the shutdown flag that always finds it set.
shutdown_always_loaded(flag) == TRUE

\* shutdown.load(Ordering::Acquire)
shutdown_load(flag) == flag

\* The ways an add_role task ends: the role was added, the request failed
\* and the error was printed, the task was dropped with the runtime.
Outcomes == {"ok", "error", "abandoned"}

\* The messages the loop receives: early and late ones, of UserA with and
\* without the reward role, of UserB without a member.
HandleEvents ==
    {mc \in MessageCreates :
        /\ mc.id \in {SnowflakeAt(0), SnowflakeAt(MaxCooldown)}
        /\ mc.member \in {NoMember, [is_some |-> TRUE, roles |-> {OtherRole, RewardRole}]}
        /\ mc.author = UserB => mc.member = NoMember}

\* The state when the event loop starts.
InitHandle ==
    /\ state \in [guild : {GuildId}, role : {RewardRole},
                  message_cooldown : {U64Of(c) : c \in 0..MaxCooldown},
                  message_requirement : {U64Of(n) : n \in 0..MaxRequirement}]
    /\ message_map = EmptyMap
    /\ background_tasks = NoTasks
    /\ shutdown = FALSE
    /\ now = 0
    /\ file = <<>>
    /\ loaded = [kind |-> "None"]
    /\ pc = "running"
    /\ tamper = [kind |-> "none"]
    /\ run = NoRun
    /\ op = "init"
    /\ ev = NoMessage
    /\ decision = FALSE
    /\ ret = FALSE
    /\ pre = EmptyMap

\* The loop goes on after false and ends after true.
loop_after(returned) == IF returned THEN "stopped" ELSE "running"

\* handle_event, Event::MessageCreate arm: the decision, then the add_role
\* task spawned for the author on a grant. Returns false.
HandleMessageCreate(mc) ==
    /\ pc = "running"
    /\ \E r \in {should_assign_role(mc, state, message_map)} :
        /\ r.ret => background_tasks[mc.author] < MaxTasks
        /\ message_map' = r.map
        /\ background_tasks' = IF r.ret THEN spawn_add_role(background_tasks, mc.author)
                               ELSE background_tasks
        /\ decision' = r.ret
    /\ ret' = FALSE
    /\ pc' = loop_after(FALSE)
    /\ op' = "MessageCreate"
    /\ ev' = mc
    /\ pre' = message_map
    /\ UNCHANGED <<state, shutdown, now, file, loaded, tamper, run>>

\* handle_event, Event::GatewayClose arm: true when the shutdown flag is set.
HandleGatewayClose ==
    /\ pc = "running"
    /\ ret' = shutdown_load(shutdown)
    /\ pc' = loop_after(shutdown_load(shutdown))
    /\ decision' = FALSE
    /\ op' = "GatewayClose"
    /\ ev' = NoMessage
    /\ pre' = message_map
    /\ UNCHANGED <<state, message_map, background_tasks, shutdown, now, file,
                   loaded, tamper, run>>

\* handle_event, every other event: ignored. Returns false.
HandleOtherEvent ==
    /\ pc = "running"
    /\ ret' = FALSE
    /\ pc' = loop_after(FALSE)
    /\ decision' = FALSE
    /\ op' = "Other"
    /\ ev' = NoMessage
    /\ pre' = message_map
    /\ UNCHANGED <<state, message_map, background_tasks, shutdown, now, file,
                   loaded, tamper, run>>

\* The shutdown signal arrives in its own task: the flag is stored.
ShutdownSignal ==
    /\ ~shutdown
    /\ shutdown' = TRUE
    /\ op' = "shutdown_signal"
    /\ pre' = message_map
    /\ UNCHANGED <<state, message_map, background_tasks, now, file, loaded, pc,
                   tamper, run, ev, decision, ret>>

\* An add_role task ends, in one of the three ways; an abandoned one only
\* once the loop has stopped.
AddRoleEnds(target, outcome) ==
    /\ background_tasks[target] > 0
    /\ outcome = "abandoned" => pc = "stopped"
    /\ background_tasks' = [background_tasks EXCEPT ![target] = @ - 1]
    /\ op' = "add_role"
    /\ ev' = [NoMessage EXCEPT !.author = target]
    /\ pre' = message_map
    /\ UNCHANGED <<state, message_map, shutdown, now, file, loaded, pc, tamper,
                   run, decision, ret>>

NextHandle ==
    \/ \E mc \in HandleEvents : HandleMessageCreate(mc)
    \/ HandleGatewayClose
    \/ HandleOtherEvent
    \/ ShutdownSignal
    \/ \E target \in Users, outcome \in Outcomes : AddRoleEnds(target, outcome)

SpecHandle == InitHandle /\ [][NextHandle]_vars

\* handle_event was the last thing to run.
Handled == op \in {"MessageCreate", "GatewayClose", "Other"}

\* The table after a message is what should_assign_role makes of the table
\* before it, and after anything else it is the table before it.
AppliedInOrder ==
    /\ op = "MessageCreate" =>
           /\ message_map = should_assign_role(ev, state, pre).map
           /\ decision = should_assign_role(ev, state, pre).ret
           /\ decision => (ev.author \notin DOMAIN message_map
                           /\ background_tasks[ev.author] > 0)
    /\ op \in {"GatewayClose", "Other", "shutdown_signal", "add_role"} =>
           message_map = pre

\* A step starts one add_role task, for the author, when it is a message
\* whose decision is grant; it starts none otherwise, and the end of a task
\* only takes that task away.
OneCallPerGrant ==
    background_tasks' =
        IF op' = "MessageCreate" /\ decision'
        THEN [background_tasks EXCEPT ![ev'.author] = @ + 1]
        ELSE IF op' = "add_role"
        THEN [background_tasks EXCEPT ![ev'.author] = @ - 1]
        ELSE background_tasks

\* C17: handle_event starts exactly one add_role task, for the author, for a
\* message whose decision is grant and none for any other event; the record
\* is gone when the task starts; however a task ends, the table is not
\* changed and no task is started again, so the table is the events applied
\* one after the other in the order they came.
C17_OneCallPerGrant ==
    []AppliedInOrder /\ [][OneCallPerGrant]_vars

\* After the loop stopped, a task of UserA ended while one of UserB was still
\* running, and the table stayed as it was.
C17_Witness ==
    /\ op = "add_role"
    /\ ev.author = UserA
    /\ pc = "stopped"
    /\ background_tasks[UserB] > 0
    /\ message_map = pre

COOLDOWN == 60

\* "How much credit users must get before getting the role"
MESSAGE_COUNT == 60

\* Seconds that pass between two reads of Instant::now().
Elapsed == {30, 60, 90}

\* Instant::saturating_duration_since
saturating_duration_since(later, earlier) ==
    IF later >= earlier THEN later - earlier ELSE 0

\* message_sent_at.saturating_duration_since(last_message) > COOLDOWN
main_cooldown_elapsed(message_sent_at, data) ==
    saturating_duration_since(message_sent_at, data.last_message) > COOLDOWN

\* entry.get().messages >= MESSAGE_COUNT
main_enough_messages(data) == U64Geq(data.messages, U64Of(MESSAGE_COUNT))

\* should_assign_role of the standalone binary; message_sent_at is Instant::now().
main_should_assign_role(message_create, st, map, message_sent_at) ==
    IF already_has_role(message_create, st)
    THEN [ret |-> FALSE, map |-> map]
    ELSE LET user_id == message_create.author
         IN  IF user_id \in DOMAIN map
             THEN IF main_cooldown_elapsed(message_sent_at, map[user_id])
                  THEN IF main_enough_messages(map[user_id])
                       THEN [ret |-> TRUE, map |-> MapRemove(map, user_id)]
                       ELSE [ret |-> FALSE,
                             map |-> [map EXCEPT ![user_id] =
                                        [messages |-> wrapping_add(@.messages, U64Of(1)),
                                         last_message |-> message_sent_at]]]
                  ELSE [ret |-> FALSE, map |-> map]
             ELSE [ret |-> FALSE,
                   map |-> MapInsert(map, user_id,
                                     [messages |-> U64Of(1),
                                      last_message |-> message_sent_at])]

MainMessageCreates ==
    [id : {SnowflakeAt(0)}, author : {UserA},
     member : {NoMember, [is_some |-> TRUE, roles |-> {OtherRole, RewardRole}]}]

\* The binary's state when its event loop starts: HashMap::new().
InitMain ==
    /\ state = [guild |-> GuildId, role |-> RewardRole]
    /\ message_map = EmptyMap
    /\ background_tasks = NoTasks
    /\ shutdown = FALSE
    /\ now = 0
    /\ PersistIdle
    /\ run = NoRun
    /\ op = "init"
    /\ ev = NoMessage
    /\ decision = FALSE
    /\ ret = FALSE
    /\ pre = EmptyMap

\* The event loop's Event::MessageCreate arm, dt seconds after the last event:
\* the decision, and the add_role task spawned on a grant.
MainMessageCreate(mc, dt) ==
    /\ now + dt <= MaxNow
    /\ now' = now + dt
    /\ \E r \in {main_should_assign_role(mc, state, message_map, now + dt)} :
        /\ message_map' = r.map
        /\ decision' = r.ret
        /\ background_tasks' = IF r.ret THEN spawn_add_role(background_tasks, mc.author)
                               ELSE background_tasks
    /\ op' = "main_should_assign_role"
    /\ ev' = mc
    /\ pre' = message_map
    /\ UNCHANGED <<state, shutdown, file, loaded, pc, tamper, run, ret>>

NextMain == \E mc \in MainMessageCreates, dt \in Elapsed : MainMessageCreate(mc, dt)

SpecMain == InitMain /\ [][NextMain]_vars

\* C1 (standalone binary): should_assign_role returns grant exactly when the
\* member does not hold the reward role, a record for the author is present,
\* the time since the stored last message is at least the cooldown and the
\* stored count is at least the threshold; and exactly then the record is gone.
C1_MainGrantIff ==
    op = "main_should_assign_role" =>
        LET u == ev.author
            due == /\ ~(ev.member.is_some /\ RewardRole \in ev.member.roles)
                   /\ u \in DOMAIN pre
                   /\ (IF now >= pre[u].last_message
                       THEN now - pre[u].last_message ELSE 0) >= COOLDOWN
                   /\ U64Geq(pre[u].messages, U64Of(MESSAGE_COUNT))
        IN  /\ decision <=> due
            /\ due <=> (u \in DOMAIN pre /\ u \notin DOMAIN message_map)

\* C15 (standalone binary): an event exactly COOLDOWN seconds after the stored
\* last message, the reward role not held, is counted or grants: the record
\* does not stay as it was.
C15_MainExactCooldown ==
    (/\ op = "main_should_assign_role"
     /\ ~(ev.member.is_some /\ RewardRole \in ev.member.roles)
     /\ ev.author \in DOMAIN pre
     /\ now - pre[ev.author].last_message = COOLDOWN) =>
        \/ ev.author \notin DOMAIN message_map
        \/ message_map[ev.author] =
               [messages |-> wrapping_add(pre[ev.author].messages, U64Of(1)),
                last_message |-> now]

\* ------------------------------------------------------------ persistence

\* MAGIC_BYTES: 0x85, 0x1E, 0x44, 0xB9, 0xA6, 0x58, 0x8F, 0x7F
MAGIC_BYTES == <<133, 30, 68, 185, 166, 88, 143, 127>>

\* SaveUser::to_raw: id, msgs, last_msg as 24 little-endian bytes.
to_raw(user) ==
    to_le_bytes(user.id) \o to_le_bytes(user.msgs) \o to_le_bytes(user.last_msg)

\* A decoder that takes the second and third field for each other.
from_raw_swapped(data) ==
    [id |-> from_le_bytes(SubSeq(data, 1, 8)),
     msgs |-> from_le_bytes(SubSeq(data, 17, 24)),
     last_msg |-> from_le_bytes(SubSeq(data, 9, 16))]

\* SaveUser::from_raw
from_raw(data) ==
    [id |-> from_le_bytes(SubSeq(data, 1, 8)),
     msgs |-> from_le_bytes(SubSeq(data, 9, 16)),
     last_msg |-> from_le_bytes(SubSeq(data, 17, 24))]

\* The SaveUser save builds for one entry of the map.
save_user(id, data) ==
    [id |-> id, msgs |-> data.messages, last_msg |-> data.last_message_at]

RECURSIVE raw_records(_, _)
raw_records(users, i) ==
    IF i > Len(users) THEN <<>>
    ELSE to_raw(users[i]) \o raw_records(users, i + 1)

\* What save writes for the SaveUsers in the order it meets them: the magic,
\* their number, their records, and the hash of all of that.
write_all(users) ==
    LET body == MAGIC_BYTES \o to_le_bytes(U64Of(Len(users))) \o raw_records(users, 1)
    IN  body \o to_le_bytes(finish(update_each(Fnv1A_new, body)))

\* save: order is the order in which the map's iterator yields its keys.
save(map, order) ==
    write_all([i \in 1..Len(order) |-> save_user(order[i], map[order[i]])])

\* The orders in which a HashMap may yield the keys S.
Orders(S) ==
    {o \in [1..Cardinality(S) -> S] : \A i, j \in 1..Cardinality(S) : o[i] = o[j] => i = j}

\* What load returns: the kind of its result (Ok or the io::ErrorKind), the
\* error's message, the step that failed, the map, and the bytes consumed.
\* An error that carries its kind and no message.
Err_without_message(kind, msg, at, pos) ==
    [kind |-> kind, msg |-> "", at |-> at, map |-> EmptyMap, pos |-> pos]

Ok(map, pos) == [kind |-> "Ok", msg |-> "", at |-> "", map |-> map, pos |-> pos]
Err(kind, msg, at, pos) ==
    [kind |-> kind, msg |-> msg, at |-> at, map |-> EmptyMap, pos |-> pos]

\* Read::read_exact succeeds when n more bytes are there.
read_exact_ok(f, pos, n) == pos + n <= Len(f)

\* A constructor that takes every id, 0 included.
new_checked_any(id) == TRUE

\* Id::new_checked: None for 0.
new_checked_ok(id) == id # U64Zero

\* A magic test that lets every file through.
magic_never_differs(magic_buf) == FALSE

\* magic_buf != MAGIC_BYTES
magic_differs(magic_buf) == magic_buf # MAGIC_BYTES

\* A checksum test that lets every file through.
hashes_never_differ(provided_hash, real_hash) == FALSE

\* provided_hash != real_hash
hashes_differ(provided_hash, real_hash) == provided_hash # real_hash

\* A loop that goes on only while a record and the checksum are still there.
more_users_in_file(f, pos, len, i) == U64Lt(U64Of(i), len) /\ pos + 32 <= Len(f)

\* A checksum taken from the last 8 bytes of the input, wherever the records end.
hash_buf_at_end(f, pos) == SubSeq(f, Len(f) - 7, Len(f))

\* file.read_exact(&mut hash_buf): the 8 bytes after the last record read.
hash_buf(f, pos) == SubSeq(f, pos + 1, pos + 8)

\* A loop that also ends where the file has no whole record left.
more_users_until_eof(f, pos, len, i) == U64Lt(U64Of(i), len) /\ pos + 24 <= Len(f)

\* for _ in 0..len: the loop body runs again after i rounds.
more_users(f, pos, len, i) == U64Lt(U64Of(i), len)

\* The loop over the records and the checksum test after it.
RECURSIVE read_users(_, _, _, _, _, _)
read_users(f, pos, len, i, hash, messages) ==
    IF more_users(f, pos, len, i)
    THEN IF ~read_exact_ok(f, pos, 24)
         THEN Err("UnexpectedEof", "failed to fill whole buffer", "record", Len(f))
         ELSE LET saveuser_buf == SubSeq(f, pos + 1, pos + 24)
                  user == from_raw(saveuser_buf)
              IN  IF ~new_checked_ok(user.id)
                  THEN Err("InvalidData",
                           "Invalid user ID value. Did you tamper with the save?",
                           "record", pos + 24)
                  ELSE read_users(f, pos + 24, len, i + 1,
                                  update_each(hash, saveuser_buf),
                                  MapInsert(messages, user.id,
                                            [messages |-> user.msgs,
                                             last_message_at |-> user.last_msg]))
    ELSE IF ~read_exact_ok(f, pos, 8)
         THEN Err("UnexpectedEof", "failed to fill whole buffer", "checksum", Len(f))
         ELSE IF hashes_differ(from_le_bytes(hash_buf(f, pos)), finish(hash))
              THEN Err("InvalidData", "Hashes do not match!", "checksum", pos + 8)
              ELSE Ok(messages, pos + 8)

\* The widths usize may have, and the numbers of entries the allocator may
\* be able to give room for: 2^32, or whatever is asked.
UsizeBits == {32, 64}
MemLimits == {<<0, 0, 1, 0>>, U64Max}

\* len.try_into() to usize fails when len does not fit.
try_into_usize_ok(len, bits) == bits = 64 \/ (len[3] = 0 /\ len[4] = 0)

\* messages.try_reserve(len_usize) fails when the capacity computation (8 * len)
\* overflows usize, whatever the allocator, or when the allocator has no room
\* for len entries.
try_reserve_ok(len, bits, mem) ==
    /\ IF bits = 64 THEN len[4] < 8192 ELSE len[2] < 8192
    /\ U64Geq(mem, len)

\* Lines 95-105 under a usize width and an allocator: how they end.
reserve(len, bits, mem) ==
    IF ~try_into_usize_ok(len, bits) THEN "Other"
    ELSE IF ~try_reserve_ok(len, bits, mem) THEN "OutOfMemory"
    ELSE "Ok"

\* load, given how the reservation for the declared length ends.
load(f, reserved) ==
    IF ~read_exact_ok(f, 0, 8)
    THEN Err("UnexpectedEof", "failed to fill whole buffer", "magic", Len(f))
    ELSE IF magic_differs(SubSeq(f, 1, 8))
    THEN Err("InvalidData", "Invalid magic for .epd file", "magic", 8)
    ELSE IF ~read_exact_ok(f, 8, 8)
    THEN Err("UnexpectedEof", "failed to fill whole buffer", "len", Len(f))
    ELSE LET len_buf == SubSeq(f, 9, 16)
         IN  IF reserved # "Ok"
             THEN Err(reserved,
                      IF reserved = "Other"
                      THEN "You have more then usize::MAX entries??? What??"
                      ELSE "memory allocation failed",
                      "reserve", 16)
             ELSE read_users(f, 16, from_le_bytes(len_buf), 0,
                             update_each(update_each(Fnv1A_new, MAGIC_BYTES), len_buf),
                             EmptyMap)

\* The ways lines 95-105 can end for the file f.
Reservations(f) ==
    IF Len(f) < 16 THEN {"Ok"}
    ELSE {reserve(from_le_bytes(SubSeq(f, 9, 16)), bits, mem) :
            bits \in UsizeBits, mem \in MemLimits}

\* The tables handed to save: up to MaxEntries users, small and large values.
DataA == [messages |-> U64Of(128), last_message_at |-> U64Of(241215)]
DataB == [messages |-> U64Max, last_message_at |-> <<513, 1027, 1541, 2055>>]
UserOne == U64Of(1)

\* The user id whose bytes equal the checksum of a file holding only UserOne's
\* record DataA.
CollisionId ==
    finish(update_each(Fnv1A_new,
                       MAGIC_BYTES \o to_le_bytes(U64Of(1)) \o to_raw(save_user(UserOne, DataA))))

PersistIds == {UserOne, CollisionId}

PersistTables ==
    UNION {[S -> {DataA, DataB}] :
             S \in {T \in SUBSET PersistIds : Cardinality(T) <= MaxEntries}}

\* Records of a hand-made file: a zero id, a repeated id.
CraftedUsers ==
    {save_user(U64Zero, DataA), save_user(UserOne, DataA), save_user(UserOne, DataB)}

CraftedFiles == UNION {[1..n -> CraftedUsers] : n \in 1..MaxEntries}

\* The values a byte b of the file is replaced by: the next and the previous.
TamperBytes(b) == {(b + 1) % 256, (b + 255) % 256}

\* The values the entry count is replaced by: the small ones, 2^32, 2^48,
\* 2^61 and u64::MAX.
TamperCounts ==
    {U64Of(n) : n \in 0..(MaxEntries + 2)}
        \cup {<<0, 0, 1, 0>>, <<0, 0, 0, 1>>, <<0, 0, 0, 8192>>, U64Max}

\* The bytes added after the checksum: one byte, and a record's worth of them.
Appended == {<<255>>, [i \in 1..24 |-> i]}

InitPersist ==
    /\ state = [guild |-> GuildId, role |-> RewardRole,
                message_cooldown |-> U64Of(60), message_requirement |-> U64Of(60)]
    /\ message_map \in PersistTables
    /\ background_tasks = NoTasks
    /\ shutdown = FALSE
    /\ now = 0
    /\ PersistIdle
    /\ run = NoRun
    /\ op = "init"
    /\ ev = NoMessage
    /\ decision = FALSE
    /\ ret = FALSE
    /\ pre = EmptyMap

PersistFrame ==
    UNCHANGED <<state, message_map, background_tasks, shutdown, now, run, ev,
                decision, ret, pre>>

\* save(&message_map, file), the map yielding its keys in some order.
Save(order) ==
    /\ pc = "idle"
    /\ file' = save(message_map, order)
    /\ pc' = "written"
    /\ op' = "save"
    /\ UNCHANGED <<loaded, tamper>>
    /\ PersistFrame

\* A file made by hand: well-formed, for records no save would write.
Craft(users) ==
    /\ pc = "idle"
    /\ message_map = EmptyMap
    /\ file' = write_all(users)
    /\ tamper' = [kind |-> "crafted", users |-> users]
    /\ pc' = "written"
    /\ op' = "craft"
    /\ UNCHANGED loaded
    /\ PersistFrame

\* One byte of the saved file is replaced by another value.
SetByte(at, value) ==
    /\ pc = "written"
    /\ tamper.kind = "none"
    /\ file' = [file EXCEPT ![at] = value]
    /\ tamper' = [kind |-> "byte", at |-> at, value |-> value]
    /\ op' = "tamper"
    /\ UNCHANGED <<loaded, pc>>
    /\ PersistFrame

\* The entry count of the saved file is replaced by another count.
SetCount(count) ==
    /\ pc = "written"
    /\ tamper.kind = "none"
    /\ count # U64Of(Cardinality(DOMAIN message_map))
    /\ file' = [i \in 1..Len(file) |->
                  IF i \in 9..16 THEN to_le_bytes(count)[i - 8] ELSE file[i]]
    /\ tamper' = [kind |-> "count", count |-> count]
    /\ op' = "tamper"
    /\ UNCHANGED <<loaded, pc>>
    /\ PersistFrame

\* The file is cut off after its first n bytes.
Truncate(n) ==
    /\ pc = "written"
    /\ tamper.kind = "none"
    /\ file' = SubSeq(file, 1, n)
    /\ tamper' = [kind |-> "truncated", at |-> n]
    /\ op' = "tamper"
    /\ UNCHANGED <<loaded, pc>>
    /\ PersistFrame

\* Bytes are added after the checksum.
AppendBytes(extra) ==
    /\ pc = "written"
    /\ tamper.kind = "none"
    /\ file' = file \o extra
    /\ tamper' = [kind |-> "appended", extra |-> extra]
    /\ op' = "tamper"
    /\ UNCHANGED <<loaded, pc>>
    /\ PersistFrame

\* load(file)
Load(reserved) ==
    /\ pc = "written"
    /\ loaded' = load(file, reserved)
    /\ pc' = "loaded"
    /\ op' = "load"
    /\ UNCHANGED <<file, tamper>>
    /\ PersistFrame

NextPersist ==
    \/ \E order \in Orders(DOMAIN message_map) : Save(order)
    \/ \E users \in CraftedFiles : Craft(users)
    \/ \E at \in 1..Len(file) : \E value \in TamperBytes(file[at]) : SetByte(at, value)
    \/ \E count \in TamperCounts : SetCount(count)
    \/ \E n \in 0..(Len(file) - 1) : Truncate(n)
    \/ \E extra \in Appended : AppendBytes(extra)
    \/ \E reserved \in Reservations(file) : Load(reserved)

SpecPersist == InitPersist /\ [][NextPersist]_vars

\* ------------------------------------------------ claims about persistence

\* load has returned for the file.
Loaded == pc = "loaded"

\* The number of entries of the table save was given.
Entries == Cardinality(DOMAIN message_map)

\* The record at index i (from 0) of the file, decoded.
FileUser(i) == from_raw(SubSeq(file, 16 + 24 * i + 1, 16 + 24 * i + 24))

\* The table made of the first k records of the file.
RECURSIVE FirstUsers(_)
FirstUsers(k) ==
    IF k = 0 THEN EmptyMap
    ELSE MapInsert(FirstUsers(k - 1), FileUser(k - 1).id,
                   [messages |-> FileUser(k - 1).msgs,
                    last_message_at |-> FileUser(k - 1).last_msg])

InvalidMagic == loaded.kind = "InvalidData" /\ loaded.msg = "Invalid magic for .epd file"
InvalidId ==
    /\ loaded.kind = "InvalidData"
    /\ loaded.msg = "Invalid user ID value. Did you tamper with the save?"
HashMismatch == loaded.kind = "InvalidData" /\ loaded.msg = "Hashes do not match!"
ShortRecord == loaded.kind = "UnexpectedEof" /\ loaded.at = "record"
ReserveFailed == loaded.kind \in {"Other", "OutOfMemory"} /\ loaded.at = "reserve"

\* C3: for every table and every order save iterates it in, load of the bytes
\* save wrote succeeds at the end of the file and returns the same table.
C3_RoundTrip ==
    (Loaded /\ tamper.kind = "none") =>
        /\ loaded.kind = "Ok"
        /\ loaded.map = message_map
        /\ loaded.pos = Len(file)

\* Two entries, written with the larger id first, have come back.
C3_Witness ==
    /\ Loaded
    /\ tamper.kind = "none"
    /\ Entries = 2
    /\ FileUser(0).id = CollisionId
    /\ loaded.map = message_map
    /\ \E u \in DOMAIN message_map : message_map[u] = DataB

\* One byte of the file save wrote was replaced, and load has returned.
ByteTampered == Loaded /\ tamper.kind = "byte"

\* The entry count now in the file.
FileCount == from_le_bytes(SubSeq(file, 9, 16))

\* The bytes of the file before position n hash to the 8 bytes that follow.
ChecksumAt(n) ==
    from_le_bytes(SubSeq(file, n + 1, n + 8)) = finish(update_each(Fnv1A_new, SubSeq(file, 1, n)))

\* What load makes of a file whose count was lowered to k: a checksum mismatch
\* at the 8 bytes after record k, unless they are the hash of what was read,
\* and then the table of the first k records.
TruncatedRead(k) ==
    /\ loaded.pos = 16 + 24 * k + 8
    /\ IF ChecksumAt(16 + 24 * k)
       THEN loaded.kind = "Ok" /\ loaded.map = FirstUsers(k)
       ELSE HashMismatch /\ loaded.at = "checksum" /\ loaded.map = EmptyMap

\* C4 as stated: whichever byte of the saved file is replaced by a different
\* value, load fails with an invalid-data error and returns no table.
C4_AnyByteCorrupt ==
    ByteTampered => loaded.kind = "InvalidData" /\ loaded.map = EmptyMap

\* C4: a replaced byte outside the entry count (bytes 9..16) makes load fail
\* with an invalid-data error and no table: invalid magic in bytes 1..8, a
\* checksum mismatch in the last 8 bytes, one of those or an invalid id in a
\* record. A replaced byte of the entry count gives the short read of a record
\* or a failed reservation when the count grew, and the truncated read when it
\* shrank.
C4_ByteOutsideCountCorrupt ==
    ByteTampered =>
        /\ loaded.kind # "Ok" => loaded.map = EmptyMap
        /\ tamper.at \in 1..8 => InvalidMagic
        /\ tamper.at > Len(file) - 8 => HashMismatch
        /\ tamper.at \in 17..(Len(file) - 8) => (HashMismatch \/ InvalidId)
        /\ tamper.at \in 9..16 =>
               IF U64Lt(U64Of(Entries), FileCount)
               THEN ShortRecord \/ ReserveFailed
               ELSE TruncatedRead(FileCount[1])

\* The last byte of a file of two records was replaced: checksum mismatch.
C4_Witness ==
    /\ ByteTampered
    /\ Entries = 2
    /\ tamper.at = Len(file)
    /\ HashMismatch

\* The entry count of the file save wrote was replaced, and load has returned.
CountTampered == Loaded /\ tamper.kind = "count"

Grown == U64Lt(U64Of(Entries), tamper.count)
Shrunk == U64Lt(tamper.count, U64Of(Entries))

C6_CountTooSmallMismatch ==
    (CountTampered /\ Shrunk /\ Entries > 0) => HashMismatch

\* C6: a count k below the number of records makes load take the 8 bytes after
\* record k for the checksum: it fails with the checksum mismatch unless those
\* bytes are the hash of the bytes read, and then it returns the first k records.
C6_CountTooSmallTruncated ==
    (CountTampered /\ Shrunk /\ Entries > 0) => TruncatedRead(tamper.count[1])

\* Two records, a count of one, and the second record's id is no checksum.
C6_Witness ==
    /\ CountTampered
    /\ Entries = 2
    /\ tamper.count = U64Of(1)
    /\ ~ChecksumAt(40)
    /\ HashMismatch

\* A hand-made file was loaded.
Crafted == Loaded /\ tamper.kind = "crafted"

HasZeroId(users) == \E i \in 1..Len(users) : users[i].id = U64Zero

\* C7: a file with the right magic, count and checksum and a record of id 0
\* is rejected with the invalid-id error; no table load returns has the key 0,
\* and no record of a file save wrote has the id 0.
C7_ZeroIdRejected ==
    /\ (Crafted /\ HasZeroId(tamper.users)) => (InvalidId /\ loaded.map = EmptyMap)
    /\ (Loaded /\ loaded.kind = "Ok") => U64Zero \notin DOMAIN loaded.map
    /\ (pc # "idle" /\ tamper.kind = "none") =>
           \A i \in 0..(Entries - 1) : FileUser(i).id # U64Zero

\* The second record of a hand-made file has the id 0, the first has not.
C7_Witness ==
    /\ Crafted
    /\ Len(tamper.users) = 2
    /\ tamper.users[1].id # U64Zero
    /\ tamper.users[2].id = U64Zero
    /\ InvalidId

\* C8: when the first 8 bytes are not the magic, load fails with the invalid
\* magic error after those 8 bytes, and nothing after them is read.
C8_WrongMagicStops ==
    (Loaded /\ Len(file) >= 8 /\ SubSeq(file, 1, 8) # MAGIC_BYTES) =>
        /\ InvalidMagic
        /\ loaded.at = "magic"
        /\ loaded.pos = 8
        /\ loaded.map = EmptyMap

\* The last byte of the magic was replaced in a file of two records.
C8_Witness ==
    /\ ByteTampered
    /\ tamper.at = 8
    /\ Entries = 2
    /\ loaded.pos = 8

\* Byte i (from 1, the least significant) of the 64-bit number v.
LEByte(v, i) ==
    IF i % 2 = 1 THEN v[(i + 1) \div 2] % 256 ELSE v[i \div 2] \div 256

\* The 8 bytes of the file after position n are the number v, least
\* significant byte first.
LittleEndianAt(n, v) == \A i \in 1..8 : file[n + i] = LEByte(v, i)

\* save has written the file and nobody has touched it.
Saved == pc # "idle" /\ tamper.kind = "none"

\* C19: the file save writes for a table of C entries has 16 + 24 * C + 8
\* bytes: the magic, C, one record of id, messages, last_message_at for each
\* entry of the table and each entry once, the FNV-1a hash of all bytes before
\* it, every number as 8 bytes least significant first; and from_raw of a
\* record gives the three numbers back.
C19_Layout ==
    Saved =>
        /\ Len(file) = 16 + 24 * Entries + 8
        /\ \A i \in 1..8 : file[i] = MAGIC_BYTES[i]
        /\ LittleEndianAt(8, U64Of(Entries))
        /\ \E order \in Orders(DOMAIN message_map) :
               \A k \in 1..Entries :
                   /\ LittleEndianAt(16 + 24 * (k - 1), order[k])
                   /\ LittleEndianAt(16 + 24 * (k - 1) + 8, message_map[order[k]].messages)
                   /\ LittleEndianAt(16 + 24 * (k - 1) + 16,
                                     message_map[order[k]].last_message_at)
                   /\ FileUser(k - 1) = save_user(order[k], message_map[order[k]])
        /\ LittleEndianAt(Len(file) - 8,
                          finish(update_each(Fnv1A_new, SubSeq(file, 1, Len(file) - 8))))

\* A table of two entries, one with the largest count, has been written.
C19_Witness ==
    /\ op = "save"
    /\ Entries = 2
    /\ Len(file) = 72
    /\ \E u \in DOMAIN message_map : message_map[u] = DataB

\* The file save wrote was cut off, and load has returned.
Truncated == Loaded /\ tamper.kind = "truncated"

\* The step of load in which a file of n bytes, cut from one of c records,
\* runs out of bytes.
ShortAt(n, c) ==
    IF n < 8 THEN "magic"
    ELSE IF n < 16 THEN "len"
    ELSE IF n < 16 + 24 * c THEN "record"
    ELSE "checksum"

\* C21: load of any strict prefix of a file save wrote, cut inside the magic,
\* the count, a record or the checksum, fails with UnexpectedEof at the read
\* that runs out of bytes, and returns no table.
C21_PrefixUnexpectedEof ==
    Truncated =>
        /\ loaded.kind = "UnexpectedEof"
        /\ loaded.at = ShortAt(Len(file), Entries)
        /\ loaded.map = EmptyMap

\* A file of two records was cut inside the second.
C21_Witness ==
    /\ Truncated
    /\ Entries = 2
    /\ Len(file) = 50
    /\ loaded.kind = "UnexpectedEof"
    /\ loaded.at = "record"

\* Two records of users carry one id.
RepeatsId(users) ==
    \E i, j \in 1..Len(users) : i < j /\ users[i].id = users[j].id

\* C22: a file with the right magic, count and checksum whose records repeat
\* a non-zero id is loaded; the table has for each id the values of its last
\* record in the file, and fewer entries than the count says.
C22_LastRecordWins ==
    (Crafted /\ ~HasZeroId(tamper.users) /\ RepeatsId(tamper.users)) =>
        /\ loaded.kind = "Ok"
        /\ \A i \in 1..Len(tamper.users) :
               (\A j \in (i + 1)..Len(tamper.users) : tamper.users[j].id # tamper.users[i].id)
                   => loaded.map[tamper.users[i].id] =
                          [messages |-> tamper.users[i].msgs,
                           last_message_at |-> tamper.users[i].last_msg]
        /\ DOMAIN loaded.map = {tamper.users[i].id : i \in 1..Len(tamper.users)}
        /\ Cardinality(DOMAIN loaded.map) < Len(tamper.users)
        /\ FileCount = U64Of(Len(tamper.users))

\* The id 1 came twice, with the large values first and the small ones last.
C22_Witness ==
    /\ Crafted
    /\ Len(tamper.users) = 2
    /\ tamper.users[1] = save_user(UserOne, DataB)
    /\ tamper.users[2] = save_user(UserOne, DataA)
    /\ loaded.kind = "Ok"
    /\ loaded.map[UserOne] = DataA

\* Bytes were added to the file save wrote, and load has returned.
Extended == Loaded /\ tamper.kind = "appended"

\* C27: load reads 16 + 24 * C + 8 bytes, C being the count in the file; a
\* file save wrote with bytes added after the checksum loads to the same
\* table, the added bytes left unread.
C27_ReadsOnlyItsBytes ==
    /\ (Loaded /\ loaded.kind = "Ok") => loaded.pos = 16 + 24 * FileCount[1] + 8
    /\ Extended =>
           /\ loaded.kind = "Ok"
           /\ loaded.map = message_map
           /\ loaded.pos = Len(file) - Len(tamper.extra)
           /\ FileCount = U64Of(Entries)

\* 24 bytes were added to a file of two records.
C27_Witness ==
    /\ Extended
    /\ Entries = 2
    /\ Len(tamper.extra) = 24
    /\ loaded.kind = "Ok"
    /\ loaded.pos = 72

\* A byte of the magic was replaced in the file save wrote, and load has
\* returned its error.
MagicTampered == ByteTampered /\ tamper.at \in 1..8

\* The file as save wrote it, before the byte of the magic was replaced.
Untampered == [file EXCEPT ![tamper.at] = MAGIC_BYTES[tamper.at]]

\* What load returns for that file with its last byte replaced.
DamagedLoad ==
    load([Untampered EXCEPT ![Len(file)] = (@ + 1) % 256], "Ok")

\* What load returns for that file without its last byte.
ShortLoad == load(SubSeq(Untampered, 1, Len(file) - 1), "Ok")

\* C23 as stated: the error for a wrong magic, the error for a checksum
\* mismatch and the error for a short read have three different kinds.
C23_KindsDiffer ==
    MagicTampered =>
        /\ loaded.kind # DamagedLoad.kind
        /\ loaded.kind # ShortLoad.kind
        /\ DamagedLoad.kind # ShortLoad.kind

\* C23: the errors for a wrong magic and for a checksum mismatch have one
\* kind, InvalidData, and differ by their message; the error for a short read
\* has another kind, UnexpectedEof.
C23_MessagesDiffer ==
    MagicTampered =>
        /\ InvalidMagic
        /\ DamagedLoad.at = "checksum"
        /\ DamagedLoad.kind = "InvalidData"
        /\ DamagedLoad.msg = "Hashes do not match!"
        /\ DamagedLoad.msg # loaded.msg
        /\ ShortLoad.at = "checksum"
        /\ ShortLoad.kind = "UnexpectedEof"
        /\ ShortLoad.kind # loaded.kind
        /\ ShortLoad.kind # DamagedLoad.kind

\* The first byte of the magic was replaced in a file of one record.
C23_Witness ==
    /\ MagicTampered
    /\ tamper.at = 1
    /\ Entries = 1
    /\ InvalidMagic
    /\ DamagedLoad.kind = loaded.kind

\* ------------------------------------------------- the Fnv1A accumulator

\* The bytes fed to the accumulator: those of the tests (0, 1, 2, 0x11) and
\* the largest.
FnvBytes == {0, 1, 2, 17, 255}

\* The slices handed to update_each.
FnvSlices == UNION {[1..n -> FnvBytes] : n \in 0..2}

\* Fnv1A::new(): file holds the bytes fed so far, loaded the accumulator.
InitFnv ==
    /\ state = [guild |-> GuildId, role |-> RewardRole,
                message_cooldown |-> U64Of(60), message_requirement |-> U64Of(60)]
    /\ message_map = EmptyMap
    /\ background_tasks = NoTasks
    /\ shutdown = FALSE
    /\ now = 0
    /\ file = <<>>
    /\ loaded = [hash |-> Fnv1A_new]
    /\ pc = "hashing"
    /\ tamper = [kind |-> "none"]
    /\ run = NoRun
    /\ op = "new"
    /\ ev = NoMessage
    /\ decision = FALSE
    /\ ret = FALSE
    /\ pre = EmptyMap

\* hash.update(data)
FnvUpdate(data) ==
    /\ pc = "hashing"
    /\ Len(file) < MaxBytes
    /\ loaded' = [hash |-> update(loaded.hash, data)]
    /\ file' = Append(file, data)
    /\ op' = "update"
    /\ UNCHANGED <<pc, tamper>>
    /\ PersistFrame

\* hash.update_each(data)
FnvUpdateEach(data) ==
    /\ pc = "hashing"
    /\ Len(file) + Len(data) <= MaxBytes
    /\ loaded' = [hash |-> update_each(loaded.hash, data)]
    /\ file' = file \o data
    /\ op' = "update_each"
    /\ UNCHANGED <<pc, tamper>>
    /\ PersistFrame

NextFnv ==
    \/ \E data \in FnvBytes : FnvUpdate(data)
    \/ \E data \in FnvSlices : FnvUpdateEach(data)

SpecFnv == InitFnv /\ [][NextFnv]_vars

\* Bit i (from 0) of x.
BitOf(x, i) == (x \div (2 ^ i)) % 2

\* x with the byte b mixed into its low 8 bits, bit by bit.
RECURSIVE XorLow(_, _, _)
XorLow(x, b, i) ==
    IF i = 8 THEN (x \div 256) * 256
    ELSE (2 ^ i) * ((BitOf(x, i) + BitOf(b, i)) % 2) + XorLow(x, b, i + 1)

\* a * 2^(8 * n) mod 2^64: the bytes of a moved up by n places.
ShiftBytes(a, n) ==
    from_le_bytes([i \in 1..8 |-> IF i <= n THEN 0 ELSE to_le_bytes(a)[i - n]])

Twice(a) == wrapping_add(a, a)

\* a * 1099511628211 mod 2^64, the multiplier taken as 2^40 + 2^8 + 179 and
\* 179 as 128 + 32 + 16 + 2 + 1.
TimesPrime(a) ==
    LET a2 == Twice(a)
        a16 == Twice(Twice(Twice(a2)))
        a32 == Twice(a16)
        a128 == Twice(Twice(a32))
        a179 == wrapping_add(wrapping_add(wrapping_add(a128, a32),
                                          wrapping_add(a16, a2)), a)
    IN  wrapping_add(wrapping_add(ShiftBytes(a, 5), ShiftBytes(a, 1)), a179)

\* 64-bit FNV-1a of the first n bytes, one byte after the other.
RECURSIVE Fnv1aOf(_, _)
Fnv1aOf(bytes, n) ==
    IF n = 0 THEN <<8997, 33826, 40164, 52210>>
    ELSE LET h == Fnv1aOf(bytes, n - 1)
         IN  TimesPrime(<<XorLow(h[1], bytes[n], 0), h[2], h[3], h[4]>>)

\* C20: a new accumulator holds 0xCBF29CE484222325; after any mix of update
\* and update_each calls it holds the 64-bit FNV-1a of the bytes fed, each
\* byte xored in and the result multiplied by 1099511628211 mod 2^64, the same
\* as update_each over all the bytes at once; the hash of [0x00] is
\* 0xAF63BD4C8601B7DF and that of [0x11] is 0xAF63CC4C8601D15C.
C20_Fnv1A ==
    pc = "hashing" =>
        /\ Fnv1A_new = <<8997, 33826, 40164, 52210>>
        /\ finish(loaded.hash) = Fnv1aOf(file, Len(file))
        /\ finish(loaded.hash) = finish(update_each(Fnv1A_new, file))
        /\ file = <<0>> => finish(loaded.hash) = <<47071, 34305, 48460, 44899>>
        /\ file = <<17>> => finish(loaded.hash) = <<53596, 34305, 52300, 44899>>

\* update_each has run after update, the bytes 0xFF and 0x11 among those fed.
C20_Witness ==
    /\ pc = "hashing"
    /\ op = "update_each"
    /\ Len(file) = MaxBytes
    /\ file[1] = 255
    /\ file[MaxBytes] = 17
=============================================================================
